---- MODULE Spec2Model ----
(***************************************************************************)
(* The serverless integration functions of the AI Scrum Master dashboard   *)
(* (slack-check, slack-post, slack-channels, jira-check, jira-create-issue *)
(* and ai-check), modelled as one request handler at a time.  A handler    *)
(* runs from the arrival of a request to its first external call, and then *)
(* from each upstream answer to the next external call or to the response. *)
(* Strings that the code inspects character by character (the channel      *)
(* reference) are sequences of one-character strings.                      *)
(***************************************************************************)
EXTENDS Integers, Sequences, FiniteSets, TLC

\* ------------------------------------------------------------------ bounds
\* Longest channel reference a caller supplies.
MaxRefLen == 3
\* Longest channel array in a conversations.list answer.
MaxChannels == 2

\* ------------------------------------------------------------- characters
\* One representative per character class the code tells apart: the hash
\* sign, an upper-case letter of [CDG], a lower-case letter of [cdg], a
\* digit, and a character outside [A-Za-z0-9].
Alphabet == {"#", "C", "g", "1", "-"}

Strings(n) == UNION {[1..k -> Alphabet] : k \in 0..n}

\* String.prototype.toUpperCase on one character (the i flag of the regex).
ToUpper(c) == IF c = "g" THEN "G" ELSE c

\* The character classes of /^([CDG])[A-Z0-9]+$/ .
IdStart == {"C", "D", "G"}
IdRest == {"C", "D", "G", "1"}

\* undefined, for a value that is a string the code looks into.
Undef == <<"undefined">>
\* undefined, for an opaque scalar.
UndefVal == "undefined"

\* JSON null, as a parsed body.
Null == [null |-> TRUE]
\* fetch() rejected: no answer at all.
Reject == [threw |-> "fetch"]
\* The answer's body is not JSON: .json() rejects.
BadJson == [threw |-> "json"]

\* !x for a string the code looks into: undefined and "" are falsy.
Falsy(s) == s = Undef \/ s = <<>>

\* ------------------------------------------------------- slack-post: pure
\* raw.startsWith("#") ? raw.slice(1) : raw
StripHash(raw) ==
    IF Len(raw) > 0 /\ raw[1] = "#" THEN SubSeq(raw, 2, Len(raw)) ELSE raw

\* Mutant: the test is case-sensitive.
LooksLikeId_CaseSensitive(s) ==
    /\ Len(s) >= 2
    /\ s[1] \in IdStart
    /\ \A i \in 2..Len(s) : s[i] \in IdRest

\* /^([CDG])[A-Z0-9]+$/i.test(s)
LooksLikeId(s) ==
    /\ Len(s) >= 2
    /\ ToUpper(s[1]) \in IdStart
    /\ \A i \in 2..Len(s) : ToUpper(s[i]) \in IdRest

\* Mutant: the channel list is fetched for every reference.
NeedsList_Always(nameOrId) == TRUE

\* Mutant: the channel list is never fetched.
NeedsList_Never(nameOrId) == FALSE

\* The condition of the resolution block: the list call is made.
NeedsList(nameOrId) == ~LooksLikeId(nameOrId)

\* listData.channels || []
ChannelsOf(listData) ==
    IF "channels" \in DOMAIN listData THEN listData.channels ELSE <<>>

\* Mutant: only the name field is compared.
NameMatches_NameOnly(c, nameOrId) == c.name = nameOrId

\* The predicate handed to Array.prototype.find.
NameMatches(c, nameOrId) == c.name = nameOrId \/ c.name_normalized = nameOrId

\* Array.prototype.find: the index of the first element satisfying the
\* predicate, 0 when there is none.
FindMatch(channels, nameOrId) ==
    IF \E i \in 1..Len(channels) : NameMatches(channels[i], nameOrId)
    THEN CHOOSE i \in 1..Len(channels) :
            /\ NameMatches(channels[i], nameOrId)
            /\ \A j \in 1..(i - 1) : ~NameMatches(channels[j], nameOrId)
    ELSE 0

\* data?.ok
IsOk(data) == data # Null /\ data.ok

\* Mutant: the id of the matching channel is taken even when it is empty.
ResolveChannel_EmptyId(listData, nameOrId) ==
    IF IsOk(listData)
    THEN LET m == FindMatch(ChannelsOf(listData), nameOrId)
         IN  IF m # 0 THEN ChannelsOf(listData)[m].id ELSE nameOrId
    ELSE nameOrId

\* The channel identifier after the resolution block, given the list answer.
ResolveChannel(listData, nameOrId) ==
    IF IsOk(listData)
    THEN LET m == FindMatch(ChannelsOf(listData), nameOrId)
         IN  IF m # 0 /\ ~Falsy(ChannelsOf(listData)[m].id)
             THEN ChannelsOf(listData)[m].id
             ELSE nameOrId
    ELSE nameOrId

\* Mutant: any failed post triggers the join.
NeedsJoin_AnyError(data) == ~IsOk(data)

\* !data?.ok && data?.error === "not_in_channel"
NeedsJoin(data) == ~IsOk(data) /\ data # Null /\ data.error = "not_in_channel"

\* Mutant: the retry post is attempted whatever the join answer.
JoinOk_Always(joinData) == TRUE

\* joinData?.ok : the retry post is attempted.
JoinOk(joinData) == IsOk(joinData)

\* ---------------------------------------------------------------- domains
\* The six integration functions.
Functions ==
    {"slack-check", "slack-post", "slack-channels",
     "jira-check", "jira-create-issue", "ai-check"}

\* The secrets each function reads with Deno.env.get before anything else.
Required(f) ==
    CASE f \in {"slack-check", "slack-post", "slack-channels"} -> {"SLACK_BOT_TOKEN"}
      [] f = "jira-check" -> {"JIRA_URL", "JIRA_USERNAME", "JIRA_API_TOKEN"}
      [] f = "jira-create-issue" ->
            {"JIRA_URL", "JIRA_USERNAME", "JIRA_API_TOKEN", "JIRA_PROJECT_KEY"}
      [] f = "ai-check" -> {"OPENAI_API_KEY"}

\* What Deno.env.get returns: undefined, the empty string, or a value.
EnvValues == {UndefVal, "", "secret"}
Envs(f) == [Required(f) -> EnvValues]

\* Mutant: the check fires only when every required secret is falsy.
SecretsMissing_All(f, e) == \A k \in Required(f) : e[k] \in {UndefVal, ""}

\* !baseUrl || !username || ... : some required secret is falsy.
SecretsMissing(f, e) == \E k \in Required(f) : e[k] \in {UndefVal, ""}

Methods == {"OPTIONS", "POST", "GET"}

\* Message texts a caller supplies: undefined, empty, or a message.
Texts == {Undef, <<>>, <<"h", "i">>, <<"y", "o">>}

\* Bodies of a slack-post request: not JSON, JSON null, or an object whose
\* channel and text are strings or absent.
SlackPostBodies ==
    {BadJson, Null}
    \cup [channel : {Undef} \cup Strings(MaxRefLen), text : Texts]

\* Channels Slack lists.  The second differs in name and name_normalized,
\* the third has no id.
ChannelUniverse ==
    { [id |-> <<"C", "1">>, name |-> <<"1">>, name_normalized |-> <<"1">>],
      [id |-> <<"C", "C">>, name |-> <<"-">>, name_normalized |-> <<"1">>],
      [id |-> <<>>,         name |-> <<"-">>, name_normalized |-> <<"-">>] }

ChannelSeqs == UNION {[1..k -> ChannelUniverse] : k \in 0..MaxChannels}

\* Outcomes of the conversations.list call.
ListAnswers ==
    {Reject, BadJson, Null}
    \cup {[ok |-> o, error |-> "invalid_auth"] : o \in BOOLEAN}
    \cup [ok : BOOLEAN, channels : ChannelSeqs]

SlackErrors == {UndefVal, "not_in_channel", "channel_not_found"}

\* The channel identifier Slack echoes in a chat.postMessage answer.
RespChannel == <<"C", "1", "1">>
TsValues == {"1700000000.000100", "1700000000.000200"}

\* Outcomes of a chat.postMessage call.
PostAnswers ==
    {Reject, BadJson, Null}
    \cup [ok : BOOLEAN, error : SlackErrors, channel : {Undef}, ts : {UndefVal}]
    \cup [ok : BOOLEAN, error : SlackErrors, channel : {RespChannel}, ts : TsValues]

\* Outcomes of the conversations.join call.
JoinAnswers ==
    {Reject, BadJson, Null} \cup [ok : BOOLEAN, error : {UndefVal, "is_archived"}]

\* ------------------------------------------------------------------ state
VARIABLES
    fn,         \* the function handling the current request ("none" at start)
    method,     \* req.method
    env,        \* what Deno.env.get returns for the function's secrets
    query,      \* the "types" search parameter of req.url (slack-channels)
    reqBody,    \* the request body as req.json() would parse it
    bodyRead,   \* req.json() has been called
    pc,         \* position of the handler
    channelId,  \* slack-post: let channelId
    data,       \* slack-post: let data
    joinData,   \* slack-post: const joinData
    calls,      \* the external calls issued by this invocation, in order
    firstPost,  \* history: the body of the first chat.postMessage answer
    lastResp,   \* history: the outcome of the last external call that ended
                \* (a Slack body, or the status and body of an HTTP answer)
    resp        \* the Response returned, NoResp before

\* The browser side: the axios instance of services/api.ts.
VARIABLES
    storage,    \* localStorage.getItem('auth_token')
    location,   \* window.location.href
    requests    \* the calls made through the typed clients, in order

\* Two requests to slack-post handled by one process.
VARIABLES
    secrets,    \* what Deno.env.get returns in that process
    runs        \* the local variables of each of the two invocations

\* The Standups page and the RealTimeDashboard component.
VARIABLES
    currentIdx,           \* Standups: const [currentIdx, setCurrentIdx]
    announced,            \* Standups: the person named in the last toast
    clicks,               \* history: the Start and Next presses, in order
    liveUpdates,          \* RealTimeDashboard: const [liveUpdates, ...]
    showNotification,     \* RealTimeDashboard: const [showNotification, ...]
    notificationMessage,  \* RealTimeDashboard: const [notificationMessage, ...]
    added                 \* history: the number of addLiveUpdate calls

handlerVars == <<fn, method, env, query, reqBody, bodyRead, pc, channelId, data,
                 joinData, calls, firstPost, lastResp, resp>>
clientVars == <<storage, location, requests>>
\* What the integration functions never touch.
pairVars == <<secrets, runs>>
standupVars == <<currentIdx, announced, clicks>>
dashboardVars == <<liveUpdates, showNotification, notificationMessage, added>>
pageVars == <<standupVars, dashboardVars>>
elsewhere == <<clientVars, pairVars, pageVars>>

vars == <<handlerVars, clientVars, pairVars, pageVars>>

NoData == [none |-> TRUE]
NoResp == [status |-> 0]
NoBody == [empty |-> TRUE]

\* const corsHeaders
CorsHeaders ==
    [allowOrigin |-> "*",
     allowHeaders |-> "authorization, x-client-info, apikey, content-type",
     contentType |-> UndefVal]
\* Mutant: the JSON responses carry the content type only.
JsonHeaders_ContentTypeOnly == [contentType |-> "application/json"]

\* { ...corsHeaders, "Content-Type": "application/json" }
JsonHeaders == [CorsHeaders EXCEPT !.contentType = "application/json"]

\* new Response(null, { headers: corsHeaders })
OptionsResponse == [status |-> 200, headers |-> CorsHeaders, body |-> NoBody]
\* new Response(JSON.stringify(body), { status, headers })
JsonResponse(status, body) == [status |-> status, headers |-> JsonHeaders, body |-> body]

\* Mutant: the catch block answers 400.
CatchResponse_400 == JsonResponse(400, [error |-> "exception"])

\* The catch block of every handler.
CatchResponse == JsonResponse(500, [error |-> "exception"])

\* Mutant: the preflight test never succeeds.
IsPreflight_Never(m) == FALSE

\* req.method === "OPTIONS"
IsPreflight(m) == m = "OPTIONS"

\* One external call: fetch(api, args).
Call(api, args) == [api |-> api, args |-> args]

\* Mutant: the response is produced but the handler does not stop.
Return_StaysOpen(r) ==
    /\ resp' = r
    /\ pc' = pc

\* The handler returns r.
Return(r) ==
    /\ resp' = r
    /\ pc' = IF r.status = 200 THEN "DONE" ELSE "FAILED"

\* A request arrives at function f: the request and a fresh invocation.
\* The handlers keep no state between requests, so one invocation is
\* followed from the arrival of its request to its response.
Begin(f, m, e, q, b) ==
    /\ fn' = f /\ method' = m /\ env' = e /\ query' = q /\ reqBody' = b
    /\ data' = NoData /\ joinData' = NoData
    /\ firstPost' = NoData /\ lastResp' = NoData

\* The handler returns r before any external call.
ReturnEarly(r, read) ==
    /\ Return(r)
    /\ bodyRead' = read /\ calls' = <<>> /\ channelId' = Undef

\* An awaited fetch or body parse threw: the catch block answers.
Throw(a) ==
    /\ Return(CatchResponse)
    /\ lastResp' = a
    /\ UNCHANGED <<channelId, data, joinData, calls, firstPost>>

Request == <<fn, method, env, query, reqBody, bodyRead>>

\* No request has reached an integration function.
HandlerIdle ==
    /\ fn = "none" /\ method = "none" /\ env = <<>> /\ query = UndefVal
    /\ reqBody = NoData /\ bodyRead = FALSE /\ pc = "IDLE"
    /\ channelId = Undef /\ data = NoData /\ joinData = NoData
    /\ calls = <<>> /\ firstPost = NoData /\ lastResp = NoData /\ resp = NoResp

\* localStorage holds no auth_token.
NoToken == "null"

\* The page has made no call.
ClientIdle == storage = NoToken /\ location = "/" /\ requests = <<>>

\* No pair of invocations is followed.
PairIdle == secrets = <<>> /\ runs = <<>>

\* useState<number | null>(null): null is written -1, which is no index.
NullIdx == -1

\* The Standups page as it mounts.
StandupIdle == currentIdx = NullIdx /\ announced = UndefVal /\ clicks = <<>>

\* The RealTimeDashboard as it mounts.
DashboardIdle ==
    /\ liveUpdates = <<>> /\ showNotification = FALSE
    /\ notificationMessage = "" /\ added = 0

PagesIdle == StandupIdle /\ DashboardIdle

Init == HandlerIdle /\ ClientIdle /\ PairIdle /\ PagesIdle

\* ------------------------------------------------------------- slack-post
\* Mutant: only the channel is required.
SlackPostInputMissing_ChannelOnly(b) == Falsy(b.channel)

\* !channel || !text
SlackPostInputMissing(b) == Falsy(b.channel) \/ Falsy(b.text)

\* fetch("https://slack.com/api/conversations.list?...types=public_channel,private_channel")
ListCall == Call("conversations.list", [types |-> "public_channel,private_channel"])
\* fetch("https://slack.com/api/chat.postMessage", { body: { channel, text } })
PostCall(ch, text) == Call("chat.postMessage", [channel |-> ch, text |-> text])
\* Mutant: the join is asked for the reference of the request.
JoinCall_Reference(ch) == Call("conversations.join", [channel |-> reqBody.channel])

\* fetch("https://slack.com/api/conversations.join", { body: { channel } })
JoinCall(ch) == Call("conversations.join", [channel |-> ch])

\* The response the handler ends with once data is final.
PostOutcome(d) ==
    IF ~IsOk(d)
    THEN JsonResponse(400, [error |-> "Slack post failed", details |-> d])
    ELSE JsonResponse(200, [ok |-> TRUE, channel |-> d.channel, ts |-> d.ts])

\* Mutant: the failure carries no hint.
JoinFailure_NoHint(jd) ==
    JsonResponse(400, [error |-> "Slack post failed", details |-> jd])

\* Mutant: the failure forwards the first post answer, not the join answer.
JoinFailure_FirstPost(jd) ==
    JsonResponse(400, [error |-> "Slack post failed",
                       hint |-> "Invite the bot to the channel with /invite @your_bot or add it via channel members.",
                       details |-> data])

\* The response when the join answer is not ok.
JoinFailure(jd) ==
    JsonResponse(400, [error |-> "Slack post failed",
                       hint |-> "Invite the bot to the channel with /invite @your_bot or add it via channel members.",
                       details |-> jd])

\* serve handler up to its first await of an upstream answer.
SlackPostRequest ==
    /\ pc = "IDLE"
    /\ UNCHANGED elsewhere
    /\ \E m \in Methods, e \in Envs("slack-post"), b \in SlackPostBodies :
        /\ Begin("slack-post", m, e, UndefVal, b)
        /\ IF IsPreflight(m)
           THEN ReturnEarly(OptionsResponse, FALSE)
           ELSE IF SecretsMissing("slack-post", e)
           THEN ReturnEarly(JsonResponse(500, [error |-> "Missing SLACK_BOT_TOKEN secret"]), FALSE)
           ELSE IF b \in {BadJson, Null}
           THEN ReturnEarly(CatchResponse, TRUE)
           ELSE IF SlackPostInputMissing(b)
           THEN ReturnEarly(JsonResponse(400, [error |-> "channel and text are required"]), TRUE)
           ELSE /\ bodyRead' = TRUE
                /\ resp' = NoResp
                /\ channelId' = StripHash(b.channel)
                /\ IF NeedsList(StripHash(b.channel))
                   THEN /\ calls' = <<ListCall>>
                        /\ pc' = "RESOLVE_CHANNEL"
                   ELSE /\ calls' = <<PostCall(StripHash(b.channel), b.text)>>
                        /\ pc' = "POST"

\* The conversations.list answer arrives: resolve, then post.
ListReturned ==
    /\ pc = "RESOLVE_CHANNEL"
    /\ UNCHANGED elsewhere
    /\ \E a \in ListAnswers :
        /\ IF a \in {Reject, BadJson}
           THEN Throw(a)
           ELSE /\ lastResp' = a
                /\ channelId' = ResolveChannel(a, StripHash(reqBody.channel))
                /\ calls' = Append(calls, PostCall(channelId', reqBody.text))
                /\ pc' = "POST"
                /\ UNCHANGED <<data, joinData, firstPost, resp>>
        /\ UNCHANGED Request

\* The first chat.postMessage answer arrives.
PostReturned ==
    /\ pc = "POST"
    /\ UNCHANGED elsewhere
    /\ \E a \in PostAnswers :
        /\ IF a \in {Reject, BadJson}
           THEN Throw(a)
           ELSE /\ lastResp' = a
                /\ firstPost' = a
                /\ data' = a
                /\ IF NeedsJoin(a)
                   THEN /\ calls' = Append(calls, JoinCall(channelId))
                        /\ pc' = "JOIN"
                        /\ resp' = NoResp
                   ELSE /\ Return(PostOutcome(a))
                        /\ calls' = calls
                /\ UNCHANGED <<channelId, joinData>>
        /\ UNCHANGED Request

\* The conversations.join answer arrives.
JoinReturned ==
    /\ pc = "JOIN"
    /\ UNCHANGED elsewhere
    /\ \E a \in JoinAnswers :
        /\ IF a \in {Reject, BadJson}
           THEN Throw(a)
           ELSE /\ lastResp' = a
                /\ joinData' = a
                /\ IF JoinOk(a)
                   THEN /\ calls' = Append(calls, PostCall(channelId, reqBody.text))
                        /\ pc' = "POST_RETRY"
                        /\ resp' = NoResp
                   ELSE /\ Return(JoinFailure(a))
                        /\ calls' = calls
                /\ UNCHANGED <<channelId, data, firstPost>>
        /\ UNCHANGED Request

\* Mutant: a not_in_channel answer to the retry starts another join.
RetryReturned_Rejoin ==
    /\ pc = "POST_RETRY"
    /\ UNCHANGED elsewhere
    /\ \E a \in PostAnswers :
        /\ IF a \in {Reject, BadJson}
           THEN Throw(a)
           ELSE /\ lastResp' = a
                /\ data' = a
                /\ IF NeedsJoin(a)
                   THEN /\ calls' = Append(calls, JoinCall(channelId))
                        /\ pc' = "JOIN"
                        /\ resp' = NoResp
                   ELSE /\ Return(PostOutcome(a))
                        /\ calls' = calls
                /\ UNCHANGED <<channelId, joinData, firstPost>>
        /\ UNCHANGED Request

\* Mutant: the retry answer is awaited but the response is built from the
\* first post answer still held in data.
RetryReturned_StaleData ==
    /\ pc = "POST_RETRY"
    /\ UNCHANGED elsewhere
    /\ \E a \in PostAnswers :
        /\ IF a \in {Reject, BadJson}
           THEN Throw(a)
           ELSE /\ lastResp' = a
                /\ data' = data
                /\ Return(PostOutcome(data))
                /\ UNCHANGED <<channelId, joinData, calls, firstPost>>
        /\ UNCHANGED Request

\* The retry chat.postMessage answer arrives.
RetryReturned ==
    /\ pc = "POST_RETRY"
    /\ UNCHANGED elsewhere
    /\ \E a \in PostAnswers :
        /\ IF a \in {Reject, BadJson}
           THEN Throw(a)
           ELSE /\ lastResp' = a
                /\ data' = a
                /\ Return(PostOutcome(a))
                /\ UNCHANGED <<channelId, joinData, calls, firstPost>>
        /\ UNCHANGED Request

\* ------------------------------------------------------------ slack-check
\* Outcomes of the auth.test call.
AuthAnswers ==
    {Reject, BadJson, Null}
    \cup [ok : BOOLEAN, error : {UndefVal, "invalid_auth"}, team : {UndefVal, "acme"}]

\* serve handler up to the await of auth.test; the body is never read.
SlackCheckRequest ==
    /\ pc = "IDLE"
    /\ UNCHANGED elsewhere
    /\ \E m \in Methods, e \in Envs("slack-check") :
        /\ Begin("slack-check", m, e, UndefVal, NoData)
        /\ IF IsPreflight(m)
           THEN ReturnEarly(OptionsResponse, FALSE)
           ELSE IF SecretsMissing("slack-check", e)
           THEN ReturnEarly(JsonResponse(500, [error |-> "Missing SLACK_BOT_TOKEN secret"]), FALSE)
           ELSE /\ bodyRead' = FALSE /\ resp' = NoResp /\ channelId' = Undef
                /\ calls' = <<Call("auth.test", [body |-> ""])>>
                /\ pc' = "CALL"

\* data.error || "Slack auth failed"
AuthError(d) == IF d.error = UndefVal THEN "Slack auth failed" ELSE d.error

\* The auth.test answer arrives.  data.ok on null throws.
SlackCheckReturned ==
    /\ pc = "CALL" /\ fn = "slack-check"
    /\ UNCHANGED elsewhere
    /\ \E a \in AuthAnswers :
        /\ IF a \in {Reject, BadJson}
           THEN Throw(a)
           ELSE /\ lastResp' = a
                /\ Return(IF a = Null THEN CatchResponse
                          ELSE IF ~a.ok THEN JsonResponse(400, [error |-> AuthError(a)])
                          ELSE JsonResponse(200, [ok |-> TRUE, team |-> a.team]))
                /\ UNCHANGED <<channelId, data, joinData, calls, firstPost>>
        /\ UNCHANGED Request

\* --------------------------------------------------------- slack-channels
\* url.searchParams.get("types") || "public_channel,private_channel"
IncludeTypes(q) ==
    IF q \in {UndefVal, ""} THEN "public_channel,private_channel" ELSE q

\* The channels of the answer, each cut down to id, name and is_private.
MapChannels(d) ==
    [i \in 1..Len(ChannelsOf(d)) |->
        [id |-> ChannelsOf(d)[i].id, name |-> ChannelsOf(d)[i].name]]

\* serve handler up to the await of conversations.list.
SlackChannelsRequest ==
    /\ pc = "IDLE"
    /\ UNCHANGED elsewhere
    /\ \E m \in Methods, e \in Envs("slack-channels"),
          q \in {UndefVal, "", "public_channel"} :
        /\ Begin("slack-channels", m, e, q, NoData)
        /\ IF IsPreflight(m)
           THEN ReturnEarly(OptionsResponse, FALSE)
           ELSE IF SecretsMissing("slack-channels", e)
           THEN ReturnEarly(JsonResponse(500, [error |-> "Missing SLACK_BOT_TOKEN secret"]), FALSE)
           ELSE /\ bodyRead' = FALSE /\ resp' = NoResp /\ channelId' = Undef
                /\ calls' = <<Call("conversations.list", [types |-> IncludeTypes(q)])>>
                /\ pc' = "CALL"

\* The conversations.list answer arrives.
SlackChannelsReturned ==
    /\ pc = "CALL" /\ fn = "slack-channels"
    /\ UNCHANGED elsewhere
    /\ \E a \in ListAnswers :
        /\ IF a \in {Reject, BadJson}
           THEN Throw(a)
           ELSE /\ lastResp' = a
                /\ Return(IF ~IsOk(a)
                          THEN JsonResponse(400, [error |-> "Failed to fetch channels",
                                                  details |-> a])
                          ELSE JsonResponse(200, [ok |-> TRUE, channels |-> MapChannels(a)]))
                /\ UNCHANGED <<channelId, data, joinData, calls, firstPost>>
        /\ UNCHANGED Request

\* ------------------------------------------------------- Jira and OpenAI
\* Response.ok : the status is in the range 200-299.
HttpOk(status) == status >= 200 /\ status <= 299

\* An upstream HTTP answer: a status and a body that is not JSON, is JSON
\* null, or is the JSON object obj.
HttpAnswers(objs) ==
    {Reject} \cup [status : {200, 401}, body : {BadJson, Null} \cup objs]

\* Mutant: a failure status is passed through as the response status.
HttpOutcome_PassStatus(a, failure, success) ==
    IF ~HttpOk(a.status)
    THEN JsonResponse(a.status, [error |-> <<failure, a.status>>, details |-> a.body])
    ELSE IF a.body \in {BadJson, Null}
    THEN CatchResponse
    ELSE JsonResponse(200, success)

\* Mutant: a failure status is answered without the details field.
HttpOutcome_NoDetails(a, failure, success) ==
    IF ~HttpOk(a.status)
    THEN JsonResponse(400, [error |-> <<failure, a.status>>])
    ELSE IF a.body \in {BadJson, Null}
    THEN CatchResponse
    ELSE JsonResponse(200, success)

\* The handler's continuation after the single upstream call of jira-check,
\* jira-create-issue and ai-check: a failure status forwards the status in
\* the error message and the body text as details, a body that does not
\* parse or is null throws, anything else succeeds.
HttpOutcome(a, failure, success) ==
    IF ~HttpOk(a.status)
    THEN JsonResponse(400, [error |-> <<failure, a.status>>, details |-> a.body])
    ELSE IF a.body \in {BadJson, Null}
    THEN CatchResponse
    ELSE JsonResponse(200, success)

\* ------------------------------------------------------------- jira-check
JiraUsers == {[accountId |-> "acc-1", displayName |-> "Dana", timeZone |-> "UTC"]}

\* serve handler up to the await of /rest/api/3/myself.
JiraCheckRequest ==
    /\ pc = "IDLE"
    /\ UNCHANGED elsewhere
    /\ \E m \in Methods, e \in Envs("jira-check") :
        /\ Begin("jira-check", m, e, UndefVal, NoData)
        /\ IF IsPreflight(m)
           THEN ReturnEarly(OptionsResponse, FALSE)
           ELSE IF SecretsMissing("jira-check", e)
           THEN ReturnEarly(JsonResponse(500,
                    [error |-> "Missing JIRA_URL/JIRA_USERNAME/JIRA_API_TOKEN secrets"]), FALSE)
           ELSE /\ bodyRead' = FALSE /\ resp' = NoResp /\ channelId' = Undef
                /\ calls' = <<Call("/rest/api/3/myself", [auth |-> "Basic"])>>
                /\ pc' = "CALL"

\* The /rest/api/3/myself answer arrives.
JiraCheckReturned ==
    /\ pc = "CALL" /\ fn = "jira-check"
    /\ UNCHANGED elsewhere
    /\ \E a \in HttpAnswers(JiraUsers) :
        /\ IF a = Reject
           THEN Throw(a)
           ELSE /\ lastResp' = a
                /\ Return(HttpOutcome(a, "Jira check failed",
                          [ok |-> TRUE, accountId |-> a.body.accountId,
                           displayName |-> a.body.displayName,
                           timeZone |-> a.body.timeZone]))
                /\ UNCHANGED <<channelId, data, joinData, calls, firstPost>>
        /\ UNCHANGED Request

\* ------------------------------------------------------ jira-create-issue
Summaries == {Undef, <<>>, <<"f", "i", "x">>}
IssueTypes == {UndefVal, "", "Bug"}
Descriptions == {UndefVal, "", "details"}

JiraCreateBodies ==
    {BadJson, Null}
    \cup [summary : Summaries, description : Descriptions, issueType : IssueTypes]

JiraIssues == {[id |-> "10001", key |-> "PROJ-1", self |-> "https://jira/10001"]}

\* !summary
JiraCreateInputMissing(b) == Falsy(b.summary)

\* const payload
IssuePayload(b) ==
    [summary |-> b.summary,
     issuetype |-> IF b.issueType \in {UndefVal, ""} THEN "Task" ELSE b.issueType,
     description |-> IF b.description = UndefVal THEN "" ELSE b.description]

\* Mutant: the body is read and validated before the secrets are tested.
JiraCreateRequest_BodyFirst ==
    /\ pc = "IDLE"
    /\ UNCHANGED elsewhere
    /\ \E m \in Methods, e \in Envs("jira-create-issue"), b \in JiraCreateBodies :
        /\ Begin("jira-create-issue", m, e, UndefVal, b)
        /\ IF IsPreflight(m)
           THEN ReturnEarly(OptionsResponse, FALSE)
           ELSE IF b \in {BadJson, Null}
           THEN ReturnEarly(CatchResponse, TRUE)
           ELSE IF JiraCreateInputMissing(b)
           THEN ReturnEarly(JsonResponse(400, [error |-> "summary is required"]), TRUE)
           ELSE IF SecretsMissing("jira-create-issue", e)
           THEN ReturnEarly(JsonResponse(500,
                    [error |-> "Missing JIRA_URL/JIRA_USERNAME/JIRA_API_TOKEN/JIRA_PROJECT_KEY secrets"]),
                    TRUE)
           ELSE /\ bodyRead' = TRUE /\ resp' = NoResp /\ channelId' = Undef
                /\ calls' = <<Call("/rest/api/3/issue", IssuePayload(b))>>
                /\ pc' = "CALL"

\* serve handler up to the await of /rest/api/3/issue.
JiraCreateRequest ==
    /\ pc = "IDLE"
    /\ UNCHANGED elsewhere
    /\ \E m \in Methods, e \in Envs("jira-create-issue"), b \in JiraCreateBodies :
        /\ Begin("jira-create-issue", m, e, UndefVal, b)
        /\ IF IsPreflight(m)
           THEN ReturnEarly(OptionsResponse, FALSE)
           ELSE IF SecretsMissing("jira-create-issue", e)
           THEN ReturnEarly(JsonResponse(500,
                    [error |-> "Missing JIRA_URL/JIRA_USERNAME/JIRA_API_TOKEN/JIRA_PROJECT_KEY secrets"]),
                    FALSE)
           ELSE IF b \in {BadJson, Null}
           THEN ReturnEarly(CatchResponse, TRUE)
           ELSE IF JiraCreateInputMissing(b)
           THEN ReturnEarly(JsonResponse(400, [error |-> "summary is required"]), TRUE)
           ELSE /\ bodyRead' = TRUE /\ resp' = NoResp /\ channelId' = Undef
                /\ calls' = <<Call("/rest/api/3/issue", IssuePayload(b))>>
                /\ pc' = "CALL"

\* The /rest/api/3/issue answer arrives.
JiraCreateReturned ==
    /\ pc = "CALL" /\ fn = "jira-create-issue"
    /\ UNCHANGED elsewhere
    /\ \E a \in HttpAnswers(JiraIssues) :
        /\ IF a = Reject
           THEN Throw(a)
           ELSE /\ lastResp' = a
                /\ Return(HttpOutcome(a, "Create issue failed",
                          [ok |-> TRUE, id |-> a.body.id, key |-> a.body.key,
                           self |-> a.body.self]))
                /\ UNCHANGED <<channelId, data, joinData, calls, firstPost>>
        /\ UNCHANGED Request

\* --------------------------------------------------------------- ai-check
Prompts == {UndefVal, "", "Summarise the sprint"}
AiCheckBodies == {BadJson, Null} \cup [prompt : Prompts]

\* The completion: no choices, or a first choice with its content.
Completions == {[choices |-> <<>>], [choices |-> <<"ok">>]}

\* Mutant: the prompt of a parsed body is sent as it is.
PromptOf_Raw(b) == IF b = BadJson THEN "Say 'ok'" ELSE b.prompt

\* prompt || "Say 'ok'" , after req.json().catch(() => ({ prompt: "Say 'ok'" }))
PromptOf(b) ==
    IF b = BadJson THEN "Say 'ok'"
    ELSE IF b.prompt \in {UndefVal, ""} THEN "Say 'ok'" ELSE b.prompt

\* data.choices?.[0]?.message?.content ?? ""
GeneratedText(d) == IF Len(d.choices) = 0 THEN "" ELSE d.choices[1]

\* serve handler up to the await of the chat completion.  A body that is
\* not JSON is replaced by the default prompt; destructuring null throws.
AiCheckRequest ==
    /\ pc = "IDLE"
    /\ UNCHANGED elsewhere
    /\ \E m \in Methods, e \in Envs("ai-check"), b \in AiCheckBodies :
        /\ Begin("ai-check", m, e, UndefVal, b)
        /\ IF IsPreflight(m)
           THEN ReturnEarly(OptionsResponse, FALSE)
           ELSE IF SecretsMissing("ai-check", e)
           THEN ReturnEarly(JsonResponse(500, [error |-> "Missing OPENAI_API_KEY secret"]), FALSE)
           ELSE IF b = Null
           THEN ReturnEarly(CatchResponse, TRUE)
           ELSE /\ bodyRead' = TRUE /\ resp' = NoResp /\ channelId' = Undef
                /\ calls' = <<Call("/v1/chat/completions", [prompt |-> PromptOf(b)])>>
                /\ pc' = "CALL"

\* Mutant: a failure status is answered by calling OpenAI again.
AiCheckReturned_Retry ==
    /\ pc = "CALL" /\ fn = "ai-check"
    /\ UNCHANGED elsewhere
    /\ \E a \in HttpAnswers(Completions) :
        /\ IF a = Reject
           THEN Throw(a)
           ELSE /\ lastResp' = a
                /\ IF ~HttpOk(a.status) /\ Len(calls) < 2
                   THEN /\ calls' = Append(calls, calls[1])
                        /\ pc' = "CALL" /\ resp' = NoResp
                   ELSE /\ Return(HttpOutcome(a, "OpenAI error",
                                 [ok |-> TRUE, generatedText |-> GeneratedText(a.body)]))
                        /\ calls' = calls
                /\ UNCHANGED <<channelId, data, joinData, firstPost>>
        /\ UNCHANGED Request

\* The chat completion answer arrives.
AiCheckReturned ==
    /\ pc = "CALL" /\ fn = "ai-check"
    /\ UNCHANGED elsewhere
    /\ \E a \in HttpAnswers(Completions) :
        /\ IF a = Reject
           THEN Throw(a)
           ELSE /\ lastResp' = a
                /\ Return(HttpOutcome(a, "OpenAI error",
                          [ok |-> TRUE, generatedText |-> GeneratedText(a.body)]))
                /\ UNCHANGED <<channelId, data, joinData, calls, firstPost>>
        /\ UNCHANGED Request

\* ------------------------------------------------- services/api.ts: client
\* Calls followed through the client.
MaxRequests == 2

\* Values of the auth_token entry: absent, empty, or a token.
Tokens == {"t1"}
StoredTokens == {NoToken, ""} \cup Tokens

\* axios.create({ headers: { 'Content-Type': 'application/json' } })
DefaultHeaders == [contentType |-> "application/json"]

\* if (token): null and "" are falsy.
Truthy(token) == token \notin {NoToken, ""}

\* Mutant: the header is attached whatever getItem returned.
RequestInterceptor_Always(headers, token) ==
    [contentType |-> headers.contentType, Authorization |-> <<"Bearer", token>>]

\* api.interceptors.request.use: the headers of the outgoing request, token
\* being what localStorage.getItem('auth_token') returned.
RequestInterceptor(headers, token) ==
    IF Truthy(token)
    THEN [contentType |-> headers.contentType, Authorization |-> <<"Bearer", token>>]
    ELSE headers

\* The typed client functions followed: a resource read, a resource delete
\* and authAPI.logout.
Ops == {"getTeams", "deleteBacklogItem", "logout"}

\* The functions of the resource clients among them.
ResourceOps == {"getTeams", "deleteBacklogItem"}

\* What comes back for a request: no response at all (network error or
\* timeout), or a status and a body.
NetworkError == [threw |-> "network"]
Statuses == {200, 401, 500}
Responses == {NetworkError} \cup [status : Statuses, data : {"a", "b"}]

\* The response goes to the first handler of interceptors.response.use
\* (a 2xx status), otherwise to the second as error.response.
Fulfils(r) == r # NetworkError /\ HttpOk(r.status)

\* Mutant: every error status clears the session.
Unauthorized_AnyStatus(r) == r # NetworkError

\* error.response?.status === 401
Unauthorized(r) == r # NetworkError /\ r.status = 401

\* A typed client function calls api.get / api.post: the request
\* interceptor reads the token and the request leaves.
ApiCall ==
    /\ Len(requests) < MaxRequests
    /\ \E op \in Ops :
         requests' = Append(requests,
             [op |-> op,
              headers |-> RequestInterceptor(DefaultHeaders, storage),
              stage |-> "sent", response |-> NoData, value |-> NoData])
    /\ UNCHANGED <<storage, location, handlerVars, pairVars, pageVars>>

\* The response interceptor: a response passes through; an error with
\* status 401 clears the token and navigates to /login; every error is
\* rejected again.
ResponseReceived ==
    /\ \E i \in DOMAIN requests, r \in Responses :
         /\ requests[i].stage = "sent"
         /\ IF Fulfils(r)
            THEN /\ requests' = [requests EXCEPT ![i].stage = "resolved",
                                                 ![i].response = r]
                 /\ UNCHANGED <<storage, location>>
            ELSE /\ requests' = [requests EXCEPT ![i].stage = "rejected",
                                                 ![i].response = r]
                 /\ IF Unauthorized(r)
                    THEN storage' = NoToken /\ location' = "/login"
                    ELSE UNCHANGED <<storage, location>>
    /\ UNCHANGED <<handlerVars, pairVars, pageVars>>

\* Mutant: logout removes the token whether its POST resolved or rejected.
CallContinues_LogoutAlwaysClears ==
    /\ \E i \in DOMAIN requests :
         /\ requests[i].stage \in {"resolved", "rejected"}
         /\ IF requests[i].stage = "rejected"
            THEN /\ requests' = [requests EXCEPT ![i].stage = "thrown",
                                                 ![i].value = requests[i].response]
                 /\ IF requests[i].op = "logout"
                    THEN storage' = NoToken
                    ELSE UNCHANGED storage
            ELSE IF requests[i].op = "logout"
            THEN /\ requests' = [requests EXCEPT ![i].stage = "returned",
                                                 ![i].value = UndefVal]
                 /\ storage' = NoToken
            ELSE IF requests[i].op = "deleteBacklogItem"
            THEN /\ requests' = [requests EXCEPT ![i].stage = "returned",
                                                 ![i].value = UndefVal]
                 /\ UNCHANGED storage
            ELSE /\ requests' = [requests EXCEPT ![i].stage = "returned",
                                                 ![i].value = requests[i].response.data]
                 /\ UNCHANGED storage
    /\ UNCHANGED <<location, handlerVars, pairVars, pageVars>>

\* Mutant: a rejected request is sent once more.
CallContinues_Resend ==
    /\ \E i \in DOMAIN requests :
         /\ requests[i].stage \in {"resolved", "rejected"}
         /\ IF requests[i].stage = "rejected"
            THEN /\ requests' = [requests EXCEPT ![i].stage = "sent"]
                 /\ UNCHANGED storage
            ELSE IF requests[i].op = "logout"
            THEN /\ requests' = [requests EXCEPT ![i].stage = "returned",
                                                 ![i].value = UndefVal]
                 /\ storage' = NoToken
            ELSE /\ requests' = [requests EXCEPT ![i].stage = "returned",
                                                 ![i].value = requests[i].response.data]
                 /\ UNCHANGED storage
    /\ UNCHANGED <<location, handlerVars, pairVars, pageVars>>

\* The typed client function resumes after its await: a rejection is
\* thrown to the caller; logout removes the token and deleteBacklogItem
\* returns nothing; a read returns response.data.
CallContinues ==
    /\ \E i \in DOMAIN requests :
         /\ requests[i].stage \in {"resolved", "rejected"}
         /\ IF requests[i].stage = "rejected"
            THEN /\ requests' = [requests EXCEPT ![i].stage = "thrown",
                                                 ![i].value = requests[i].response]
                 /\ UNCHANGED storage
            ELSE IF requests[i].op = "logout"
            THEN /\ requests' = [requests EXCEPT ![i].stage = "returned",
                                                 ![i].value = UndefVal]
                 /\ storage' = NoToken
            ELSE IF requests[i].op = "deleteBacklogItem"
            THEN /\ requests' = [requests EXCEPT ![i].stage = "returned",
                                                 ![i].value = UndefVal]
                 /\ UNCHANGED storage
            ELSE /\ requests' = [requests EXCEPT ![i].stage = "returned",
                                                 ![i].value = requests[i].response.data]
                 /\ UNCHANGED storage
    /\ UNCHANGED <<location, handlerVars, pairVars, pageVars>>

\* Header.handleLogout
HandleLogout ==
    /\ storage' = NoToken
    /\ location' = "/login"
    /\ UNCHANGED <<requests, handlerVars, pairVars, pageVars>>

\* The page loads with whatever auth_token the browser holds.
ClientInit ==
    /\ HandlerIdle /\ PairIdle /\ PagesIdle
    /\ storage \in StoredTokens /\ location = "/" /\ requests = <<>>

ClientNext ==
    \/ ApiCall
    \/ ResponseReceived
    \/ CallContinues
    \/ HandleLogout

ClientSpec == ClientInit /\ [][ClientNext]_vars

\* ------------------------------------------- slack-post: two invocations
\* The two invocations.
Invocations == {1, 2}

\* The requests the two invocations are given: a preflight or a POST, to a
\* channel name or to a channel identifier.
PairMethods == {"OPTIONS", "POST"}
PairBodies ==
    {b \in SlackPostBodies :
        /\ b \notin {BadJson, Null}
        /\ b.channel \in {<<"#", "1">>, <<"C", "1">>}
        /\ b.text = <<"h", "i">>}

\* Answers the two invocations may get to a list, a post and a join call.
PairListAnswers ==
    {a \in ListAnswers :
        \/ a = Reject
        \/ a = [ok |-> FALSE, error |-> "invalid_auth"]
        \/ /\ a \notin {Reject, BadJson, Null} /\ a.ok
           /\ "channels" \in DOMAIN a /\ Len(a.channels) = 1
           /\ a.channels[1].id = <<"C", "1">>}
PairPostAnswers ==
    {a \in PostAnswers :
        \/ a = BadJson
        \/ /\ a \notin {Reject, BadJson, Null}
           /\ a.channel = RespChannel /\ a.ts = "1700000000.000100"
           /\ \/ a.ok /\ a.error = UndefVal
              \/ ~a.ok /\ a.error = "not_in_channel"}
PairJoinAnswers ==
    {a \in JoinAnswers :
        /\ a \notin {Reject, BadJson, Null}
        /\ a.ok <=> a.error = UndefVal}

\* The local variables of an invocation as its request arrives; heard is
\* history, the answers the invocation has received.
Fresh(m, b) ==
    [pc |-> "IDLE", method |-> m, body |-> b, channelId |-> Undef,
     data |-> NoData, joinData |-> NoData, calls |-> <<>>, heard |-> <<>>,
     resp |-> NoResp]

\* The invocation returns r.
Finish(l, r) ==
    [l EXCEPT !.resp = r, !.pc = IF r.status = 200 THEN "DONE" ELSE "FAILED"]

\* The handler runs from the arrival of the request to its first await of
\* an upstream answer, e being the environment.
Start(l, e) ==
    IF IsPreflight(l.method)
    THEN Finish(l, OptionsResponse)
    ELSE IF SecretsMissing("slack-post", e)
    THEN Finish(l, JsonResponse(500, [error |-> "Missing SLACK_BOT_TOKEN secret"]))
    ELSE IF l.body \in {BadJson, Null}
    THEN Finish(l, CatchResponse)
    ELSE IF SlackPostInputMissing(l.body)
    THEN Finish(l, JsonResponse(400, [error |-> "channel and text are required"]))
    ELSE IF NeedsList(StripHash(l.body.channel))
    THEN [l EXCEPT !.channelId = StripHash(l.body.channel),
                   !.calls = <<ListCall>>,
                   !.pc = "RESOLVE_CHANNEL"]
    ELSE [l EXCEPT !.channelId = StripHash(l.body.channel),
                   !.calls = <<PostCall(StripHash(l.body.channel), l.body.text)>>,
                   !.pc = "POST"]

\* The handler resumes with the answer a to the call it awaits and runs to
\* its next await or to its return.
Resume(l, a) ==
    IF a \in {Reject, BadJson}
    THEN Finish([l EXCEPT !.heard = Append(@, a)], CatchResponse)
    ELSE CASE l.pc = "RESOLVE_CHANNEL" ->
                [l EXCEPT !.heard = Append(@, a),
                          !.channelId = ResolveChannel(a, l.channelId),
                          !.calls = Append(@, PostCall(ResolveChannel(a, l.channelId),
                                                       l.body.text)),
                          !.pc = "POST"]
           [] l.pc = "POST" ->
                IF NeedsJoin(a)
                THEN [l EXCEPT !.heard = Append(@, a), !.data = a,
                               !.calls = Append(@, JoinCall(l.channelId)),
                               !.pc = "JOIN"]
                ELSE Finish([l EXCEPT !.heard = Append(@, a), !.data = a],
                            PostOutcome(a))
           [] l.pc = "JOIN" ->
                IF JoinOk(a)
                THEN [l EXCEPT !.heard = Append(@, a), !.joinData = a,
                               !.calls = Append(@, PostCall(l.channelId, l.body.text)),
                               !.pc = "POST_RETRY"]
                ELSE Finish([l EXCEPT !.heard = Append(@, a), !.joinData = a],
                            JoinFailure(a))
           [] l.pc = "POST_RETRY" ->
                Finish([l EXCEPT !.heard = Append(@, a), !.data = a], PostOutcome(a))
           [] OTHER -> l

\* The answers that can arrive for the call awaited at p.
AnswersAt(p) ==
    CASE p = "RESOLVE_CHANNEL" -> PairListAnswers
      [] p \in {"POST", "POST_RETRY"} -> PairPostAnswers
      [] p = "JOIN" -> PairJoinAnswers
      [] OTHER -> {}

\* Mutant: a request whose channel and text another invocation has already
\* posted is answered without a call of its own.
InvocationStarts_Dedup ==
    /\ \E i \in Invocations :
         /\ runs[i].pc = "IDLE"
         /\ runs' = [runs EXCEPT ![i] =
              IF \E j \in Invocations \ {i} : \E k \in DOMAIN runs[j].calls :
                    /\ runs[j].calls[k].api = "chat.postMessage"
                    /\ runs[j].body = runs[i].body
              THEN Finish(runs[i], JsonResponse(200, [ok |-> TRUE]))
              ELSE Start(runs[i], secrets)]
    /\ UNCHANGED <<secrets, handlerVars, clientVars, pageVars>>

\* One of the two requests reaches its handler.
InvocationStarts ==
    /\ \E i \in Invocations :
         /\ runs[i].pc = "IDLE"
         /\ runs' = [runs EXCEPT ![i] = Start(runs[i], secrets)]
    /\ UNCHANGED <<secrets, handlerVars, clientVars, pageVars>>

\* An upstream answer reaches the invocation awaiting it.
AnswerArrives ==
    /\ \E i \in Invocations : \E a \in AnswersAt(runs[i].pc) :
         runs' = [runs EXCEPT ![i] = Resume(runs[i], a)]
    /\ UNCHANGED <<secrets, handlerVars, clientVars, pageVars>>

\* Two requests are pending in a process with its environment.
PairInit ==
    /\ HandlerIdle /\ ClientIdle /\ PagesIdle
    /\ secrets \in Envs("slack-post")
    /\ runs \in [Invocations -> {Fresh(m, b) : m \in PairMethods, b \in PairBodies}]

PairNext ==
    \/ InvocationStarts
    \/ AnswerArrives

PairSpec == PairInit /\ [][PairNext]_vars

\* --------------------------------------------- Standups.tsx: round robin
\* Button presses followed.
MaxClicks == 7

\* const initial
People == <<"Alice", "Bob", "Carlos", "Dana">>

\* people[i], indexed from 0 as in the page.
PersonAt(i) == People[i + 1]

\* Mutant: the index stops at the last person.
NextIdx_StopsAtLast(idx) == IF idx + 1 = Len(People) THEN idx ELSE (idx + 1) % Len(People)

\* (currentIdx + 1) % people.length
NextIdx(idx) == (idx + 1) % Len(People)

\* const start
StartRound ==
    /\ Len(clicks) < MaxClicks
    /\ currentIdx' = 0
    /\ announced' = PersonAt(0)
    /\ clicks' = Append(clicks, "start")
    /\ UNCHANGED <<handlerVars, clientVars, pairVars, dashboardVars>>

\* const next
NextSpeaker ==
    /\ Len(clicks) < MaxClicks
    /\ IF currentIdx = NullIdx
       THEN UNCHANGED <<currentIdx, announced>>
       ELSE /\ currentIdx' = NextIdx(currentIdx)
            /\ announced' = PersonAt(NextIdx(currentIdx))
    /\ clicks' = Append(clicks, "next")
    /\ UNCHANGED <<handlerVars, clientVars, pairVars, dashboardVars>>

StandupInit == Init

StandupNext ==
    \/ StartRound
    \/ NextSpeaker

StandupSpec == StandupInit /\ [][StandupNext]_vars

\* ------------------------------------- RealTimeDashboard.tsx: live updates
\* addLiveUpdate calls followed.
MaxUpdates == 11

\* prev.slice(0, 9)
SliceEnd == 9

\* The updates the component adds: an info or a warning, with its message.
Updates ==
    {[type |-> "info", message |-> "Dashboard refreshed manually"],
     [type |-> "warning", message |-> "Sprint completion updated"]}

\* Mutant: nothing is cut off the previous list.
Slice_Whole(prev) == prev

\* prev.slice(0, 9)
Slice(prev) == SubSeq(prev, 1, IF Len(prev) < SliceEnd THEN Len(prev) ELSE SliceEnd)

\* update.type === 'success' || update.type === 'warning'
Important(update) == update.type \in {"success", "warning"}

\* const addLiveUpdate.  seq stands for the id and timestamp of the entry:
\* the rank of its addition.
AddLiveUpdate ==
    /\ added < MaxUpdates
    /\ \E u \in Updates :
         /\ liveUpdates' = <<[type |-> u.type, message |-> u.message,
                              seq |-> added + 1]>> \o Slice(liveUpdates)
         /\ IF Important(u)
            THEN notificationMessage' = u.message /\ showNotification' = TRUE
            ELSE UNCHANGED <<notificationMessage, showNotification>>
    /\ added' = added + 1
    /\ UNCHANGED <<handlerVars, clientVars, pairVars, standupVars>>

\* onClose={() => setShowNotification(false)}
CloseNotification ==
    /\ showNotification
    /\ showNotification' = FALSE
    /\ UNCHANGED <<liveUpdates, notificationMessage, added>>
    /\ UNCHANGED <<handlerVars, clientVars, pairVars, standupVars>>

DashboardInit == Init

DashboardNext ==
    \/ AddLiveUpdate
    \/ CloseNotification

DashboardSpec == DashboardInit /\ [][DashboardNext]_vars

\* ---------------------------------------------------------- specification
Next ==
    \/ SlackPostRequest
    \/ ListReturned
    \/ PostReturned
    \/ JoinReturned
    \/ RetryReturned
    \/ SlackCheckRequest
    \/ SlackCheckReturned
    \/ SlackChannelsRequest
    \/ SlackChannelsReturned
    \/ JiraCheckRequest
    \/ JiraCheckReturned
    \/ JiraCreateRequest
    \/ JiraCreateReturned
    \/ AiCheckRequest
    \/ AiCheckReturned

Spec == Init /\ [][Next]_vars

\* Every external call of slack-post eventually returns or throws.
CallsReturn ==
    WF_vars(ListReturned \/ PostReturned \/ JoinReturned \/ RetryReturned)

FairSpec == Spec /\ CallsReturn

\* ------------------------------------------------------------- properties
\* The number of calls to api issued so far.
Count(api) == Cardinality({i \in 1..Len(calls) : calls[i].api = api})

Ended == pc \in {"DONE", "FAILED"}

\* b is a parsed Slack answer (an object or null).
IsBody(b) == b \notin {NoData, Reject, BadJson}

\* b is a parsed Slack answer that does not report success.
Failure(b) == IsBody(b) /\ (b = Null \/ ~b.ok)

\* b is a failed answer carrying the error code not_in_channel.
NotInChannel(b) == IsBody(b) /\ b # Null /\ ~b.ok /\ b.error = "not_in_channel"

\* slack-post has passed its checks and issued its first external call.
InFlow == fn = "slack-post" /\ calls # <<>>

\* C1 as stated: once the first chat.postMessage answer reports
\* not_in_channel, the ended invocation has made exactly one
\* conversations.join call and exactly one retry post, whatever the join
\* answer was.
C1_JoinAndRetryAlways ==
    (fn = "slack-post" /\ Ended /\ NotInChannel(firstPost))
        => (Count("conversations.join") = 1 /\ Count("chat.postMessage") = 2)

\* C1 amended: once the first chat.postMessage answer reports
\* not_in_channel, the ended invocation has made exactly one
\* conversations.join call, and exactly one retry post when the join answer
\* was ok and none otherwise (join answer not ok, or the join call threw).
C1_JoinOnceRetryIfJoined ==
    (fn = "slack-post" /\ Ended /\ NotInChannel(firstPost))
        => /\ Count("conversations.join") = 1
           /\ Count("chat.postMessage") =
                IF IsBody(joinData) /\ ~Failure(joinData) THEN 2 ELSE 1

\* C1 witness: a not_in_channel first post, a refused join, no retry.
C1_Witness ==
    /\ fn = "slack-post" /\ pc = "FAILED" /\ NotInChannel(firstPost)
    /\ Failure(joinData)
    /\ Count("conversations.join") = 1 /\ Count("chat.postMessage") = 1

\* C2: once the first chat.postMessage answer is a success or a failure
\* other than not_in_channel, the invocation has ended (DONE on success,
\* FAILED on failure) with no conversations.join call and no retry post.
C2_NoJoinOnOtherAnswers ==
    (fn = "slack-post" /\ IsBody(firstPost) /\ ~NotInChannel(firstPost))
        => /\ Count("conversations.join") = 0
           /\ Count("chat.postMessage") = 1
           /\ pc = IF Failure(firstPost) THEN "FAILED" ELSE "DONE"

\* C2 witness: the first post failed with channel_not_found.
C2_Witness ==
    /\ fn = "slack-post" /\ pc = "FAILED" /\ Failure(firstPost)
    /\ firstPost # Null /\ firstPost.error = "channel_not_found"
    /\ Count("conversations.join") = 0

\* C3: for a channel reference that matches the identifier pattern, no
\* conversations.list call is made and the first call is the post to the
\* reference itself.
C3_IdentifierSkipsList ==
    (InFlow /\ LooksLikeId(reqBody.channel))
        => /\ Count("conversations.list") = 0
           /\ calls[1].api = "chat.postMessage"
           /\ calls[1].args.channel = reqBody.channel

\* C3 witness: an identifier-shaped reference has been posted to.
C3_Witness ==
    /\ InFlow /\ LooksLikeId(reqBody.channel) /\ pc = "DONE"
    /\ Len(calls) = 1

\* C4 as stated: for a channel reference that does not itself match the
\* identifier pattern, exactly one conversations.list call is made, before
\* the first post.
C4_ListForEveryNonIdentifier ==
    (InFlow /\ ~LooksLikeId(reqBody.channel))
        => /\ Count("conversations.list") = 1
           /\ calls[1].api = "conversations.list"

\* C4 amended: for a channel reference that, after one leading '#' is
\* stripped, does not match the identifier pattern, exactly one
\* conversations.list call is made, before the first post.
C4_ListForStrippedNonIdentifier ==
    (InFlow /\ ~LooksLikeId(StripHash(reqBody.channel)))
        => /\ Count("conversations.list") = 1
           /\ calls[1].api = "conversations.list"

\* C4 witness: a '#'-prefixed name was listed for and then posted to.
C4_Witness ==
    /\ InFlow /\ reqBody.channel[1] = "#"
    /\ ~LooksLikeId(StripHash(reqBody.channel))
    /\ Len(calls) = 2 /\ calls[1].api = "conversations.list"
    /\ calls[2].api = "chat.postMessage"

\* The first post has just been issued after a conversations.list answer,
\* which lastResp still holds.
PostedAfterList ==
    /\ InFlow /\ pc = "POST" /\ Len(calls) = 2
    /\ calls[1].api = "conversations.list"

\* The index of the first listed channel whose name is n, 0 when none.
FirstNamed(chs, n) ==
    IF \E i \in 1..Len(chs) : chs[i].name = n
    THEN CHOOSE i \in 1..Len(chs) :
            chs[i].name = n /\ \A j \in 1..(i - 1) : chs[j].name # n
    ELSE 0

\* The index of the first listed channel whose name or name_normalized is
\* n, 0 when none.
FirstNamedOrNormalized(chs, n) ==
    IF \E i \in 1..Len(chs) : n \in {chs[i].name, chs[i].name_normalized}
    THEN CHOOSE i \in 1..Len(chs) :
            /\ n \in {chs[i].name, chs[i].name_normalized}
            /\ \A j \in 1..(i - 1) : n \notin {chs[j].name, chs[j].name_normalized}
    ELSE 0

\* The channels of a list answer that reports success, none otherwise.
Listed(list) ==
    IF list # Null /\ list.ok /\ "channels" \in DOMAIN list
    THEN list.channels ELSE <<>>

\* C5 as stated: the channel posted to is the id of the first listed
\* channel whose name equals the reference, and the reference as supplied
\* when no listed channel has that name.
C5_PostsToFirstExactNameOrReference ==
    PostedAfterList =>
        LET chs == Listed(lastResp)
            m == FirstNamed(chs, reqBody.channel)
        IN  calls[2].args.channel = IF m # 0 THEN chs[m].id ELSE reqBody.channel

\* C5 amended: with n the reference after one leading '#' is stripped, the
\* channel posted to is the id of the first listed channel whose name or
\* name_normalized equals n when that id is not empty, and n itself
\* otherwise (no such channel, an empty id, or a list answer that is not
\* ok).
C5_PostsToFirstMatchOrStripped ==
    PostedAfterList =>
        LET n == StripHash(reqBody.channel)
            chs == Listed(lastResp)
            m == FirstNamedOrNormalized(chs, n)
        IN  calls[2].args.channel =
                IF m # 0 /\ chs[m].id # <<>> THEN chs[m].id ELSE n

\* C5 witness: a '#'-prefixed name was resolved to the id of a channel
\* matched by name_normalized only, listed before a channel matched by name.
C5_Witness ==
    /\ PostedAfterList /\ reqBody.channel = <<"#", "1">>
    /\ Len(Listed(lastResp)) = 2
    /\ Listed(lastResp)[1].name # <<"1">>
    /\ Listed(lastResp)[2].name = <<"1">>
    /\ calls[2].args.channel = Listed(lastResp)[1].id

\* Some secret the function requires is absent from the environment.
SecretAbsent == \E k \in DOMAIN env : env[k] = UndefVal

\* C6: a non-OPTIONS request handled while a required secret is absent is
\* answered 500 with an error message, and no external call is made.
C6_MissingSecretIs500 ==
    (fn \in Functions /\ method # "OPTIONS" /\ SecretAbsent)
        => /\ pc = "FAILED"
           /\ resp.status = 500
           /\ "error" \in DOMAIN resp.body
           /\ calls = <<>>

\* C6 witness: jira-create-issue with only JIRA_PROJECT_KEY absent.
C6_Witness ==
    /\ fn = "jira-create-issue" /\ method = "POST"
    /\ env["JIRA_PROJECT_KEY"] = UndefVal
    /\ \A k \in DOMAIN env \ {"JIRA_PROJECT_KEY"} : env[k] = "secret"
    /\ resp.status = 500

\* C7: an OPTIONS request is answered 200 with an empty body and the CORS
\* headers, with no external call and the request body unread, whatever the
\* secrets are.
C7_OptionsShortCircuits ==
    (fn \in Functions /\ method = "OPTIONS")
        => /\ pc = "DONE"
           /\ resp.status = 200
           /\ resp.body = NoBody
           /\ resp.headers.allowOrigin = "*"
           /\ resp.headers.allowHeaders =
                "authorization, x-client-info, apikey, content-type"
           /\ calls = <<>>
           /\ ~bodyRead

\* C7 witness: an OPTIONS request answered while a secret is absent.
C7_Witness ==
    /\ fn = "jira-check" /\ method = "OPTIONS" /\ SecretAbsent
    /\ resp.status = 200

\* The retry post has been answered with success after a not_in_channel
\* first post and a successful join.
RetrySucceeded ==
    /\ fn = "slack-post" /\ Ended /\ NotInChannel(firstPost)
    /\ IsBody(joinData) /\ ~Failure(joinData)
    /\ Count("chat.postMessage") = 2
    /\ IsBody(lastResp) /\ ~Failure(lastResp)

\* C8: when the first post reports not_in_channel and the join and the
\* retry post succeed, the invocation ends DONE with 200 and
\* { ok: true, channel, ts } taken from the retry answer.
C8_SuccessCarriesRetryAnswer ==
    RetrySucceeded
        => /\ pc = "DONE"
           /\ resp.status = 200
           /\ resp.body = [ok |-> TRUE, channel |-> lastResp.channel,
                           ts |-> lastResp.ts]

\* C8 witness: the retry answer's ts differs from the ts the first answer
\* carried.
C8_Witness ==
    /\ RetrySucceeded /\ pc = "DONE"
    /\ firstPost.ts # UndefVal /\ lastResp.ts # UndefVal
    /\ firstPost.ts # lastResp.ts

\* C9: an invocation whose last chat.postMessage or conversations.join call
\* was answered with a failure by Slack ends FAILED with 400, error
\* "Slack post failed" and details equal to that last answer.
C9_FailureForwardsLastAnswer ==
    (fn = "slack-post" /\ Ended /\ calls # <<>>
        /\ calls[Len(calls)].api \in {"chat.postMessage", "conversations.join"}
        /\ Failure(lastResp))
        => /\ pc = "FAILED"
           /\ resp.status = 400
           /\ resp.body.error = "Slack post failed"
           /\ resp.body.details = lastResp

\* C9 witness: the join was refused after a not_in_channel first post.
C9_Witness ==
    /\ fn = "slack-post" /\ pc = "FAILED"
    /\ Count("conversations.join") = 1 /\ Count("chat.postMessage") = 1
    /\ Failure(joinData) /\ joinData # Null
    /\ resp.status = 400 /\ resp.body.details = joinData

\* Every secret the function requires is set.
SecretsSet == \A k \in DOMAIN env : env[k] = "secret"

\* The request body parsed to an object.
BodyIsObject == IsBody(reqBody) /\ reqBody # Null

\* C10: slack-post with a missing or empty channel or text, and
\* jira-create-issue with a missing or empty summary, answer 400 with an
\* error message and make no external call.
C10_MissingFieldIs400 ==
    /\ (fn = "slack-post" /\ method # "OPTIONS" /\ SecretsSet /\ BodyIsObject
          /\ (reqBody.channel \in {Undef, <<>>} \/ reqBody.text \in {Undef, <<>>}))
        => (resp.status = 400 /\ "error" \in DOMAIN resp.body /\ calls = <<>>)
    /\ (fn = "jira-create-issue" /\ method # "OPTIONS" /\ SecretsSet /\ BodyIsObject
          /\ reqBody.summary \in {Undef, <<>>})
        => (resp.status = 400 /\ "error" \in DOMAIN resp.body /\ calls = <<>>)

\* C10 witness: slack-post given a channel and an empty text.
C10_Witness ==
    /\ fn = "slack-post" /\ method = "POST" /\ SecretsSet /\ BodyIsObject
    /\ reqBody.channel = <<"C", "1">> /\ reqBody.text = <<>>
    /\ resp.status = 400

SlackFunctions == {"slack-check", "slack-post", "slack-channels"}
HttpFunctions == {"jira-check", "jira-create-issue", "ai-check"}

\* The invocation has ended and the answer to its last external call is an
\* error reported by the upstream API: a Slack object with ok = false, or
\* a Jira / OpenAI status outside 200-299.
UpstreamError ==
    /\ Ended /\ lastResp \notin {NoData, Reject, BadJson, Null}
    /\ \/ fn \in SlackFunctions /\ ~lastResp.ok
       \/ fn \in HttpFunctions /\ (lastResp.status < 200 \/ lastResp.status > 299)

\* The body the upstream API sent with its last answer.
UpstreamBody == IF fn \in HttpFunctions THEN lastResp.body ELSE lastResp

\* C11 as stated: in every integration function an upstream error is
\* answered 400 with the upstream body in a details field.
C11_UpstreamErrorHasDetails ==
    UpstreamError
        => /\ resp.status = 400
           /\ "details" \in DOMAIN resp.body
           /\ resp.body.details = UpstreamBody

\* C11 amended: an upstream error answering the invocation's last external
\* call is answered 400; the body carries the upstream body in details in
\* every function but slack-check, whose body has no details field and
\* carries the upstream error code (or "Slack auth failed") as its error.
C11_UpstreamErrorIs400 ==
    UpstreamError
        => /\ resp.status = 400
           /\ IF fn = "slack-check"
              THEN /\ "details" \notin DOMAIN resp.body
                   /\ resp.body.error =
                        IF lastResp.error = UndefVal THEN "Slack auth failed"
                        ELSE lastResp.error
              ELSE /\ "details" \in DOMAIN resp.body
                   /\ resp.body.details = UpstreamBody

\* C11 witness: Jira answered 401 and the 400 response forwards its body.
C11_Witness ==
    /\ fn = "jira-check" /\ UpstreamError /\ lastResp.status = 401
    /\ resp.status = 400 /\ resp.body.details = lastResp.body

\* An awaited upstream call threw: the fetch was rejected, or the handler
\* parsed the answer and it was not JSON, or it read a field of JSON null.
ThrewOnAnswer ==
    \/ lastResp = Reject
    \/ fn \in SlackFunctions /\ lastResp = BadJson
    \/ fn = "slack-check" /\ lastResp = Null
    \/ /\ fn \in HttpFunctions /\ lastResp \notin {NoData, Reject}
       /\ lastResp.status >= 200 /\ lastResp.status <= 299
       /\ lastResp.body \in {BadJson, Null}

\* The handler read a request body that is not JSON or is JSON null.
ReadBadBody == bodyRead /\ reqBody \in {BadJson, Null}

\* C12 as stated: every step in which an exception is raised (by an
\* upstream call or by reading the request body) ends the invocation with
\* 500 and the exception message as error, and issues no external call.
C12_EveryExceptionIs500 ==
    [][(ThrewOnAnswer \/ ReadBadBody)'
        => (pc' = "FAILED" /\ resp'.status = 500
            /\ resp'.body = [error |-> "exception"] /\ calls' = calls)]_vars

\* C12 amended: the same, except that in ai-check a request body that is
\* not JSON raises nothing (it is replaced by the default prompt and the
\* OpenAI call is made).
C12_CaughtExceptionIs500 ==
    [][(ThrewOnAnswer \/ (ReadBadBody /\ ~(fn = "ai-check" /\ reqBody = BadJson)))'
        => (pc' = "FAILED" /\ resp'.status = 500
            /\ resp'.body = [error |-> "exception"] /\ calls' = calls)]_vars

\* C12 witness: the retry post of slack-post was rejected after two
\* answered calls.
C12_Witness ==
    /\ fn = "slack-post" /\ lastResp = Reject /\ pc = "FAILED"
    /\ Count("chat.postMessage") = 2 /\ resp.status = 500

\* C13: every response to a request other than OPTIONS is either 200 with
\* ok = true and no error field, or 400 or 500 with an error field and no
\* ok field.
C13_TwoResponseShapes ==
    (Ended /\ method # "OPTIONS") =>
        \/ /\ resp.status = 200
           /\ "ok" \in DOMAIN resp.body /\ resp.body.ok = TRUE
           /\ "error" \notin DOMAIN resp.body
        \/ /\ resp.status \in {400, 500}
           /\ "error" \in DOMAIN resp.body
           /\ "ok" \notin DOMAIN resp.body

\* C13 witness: jira-create-issue answered 400 to an upstream 401.
C13_Witness ==
    /\ fn = "jira-create-issue" /\ method = "POST" /\ Ended
    /\ lastResp \notin {NoData, Reject} /\ lastResp.status = 401
    /\ resp.status = 400 /\ "error" \in DOMAIN resp.body

\* C14: every response, on every path, carries
\* Access-Control-Allow-Origin: *.
C14_AllowOriginOnEveryResponse ==
    Ended => ("allowOrigin" \in DOMAIN resp.headers /\ resp.headers.allowOrigin = "*")

\* C14 witness: the catch path of slack-check answered 500 with the header.
C14_Witness ==
    /\ fn = "slack-check" /\ lastResp = Reject /\ resp.status = 500
    /\ resp.headers.allowOrigin = "*"

\* The request sent by the step, if the step sends one.
Sends == Len(requests') = Len(requests) + 1
Sent == requests'[Len(requests')]
HasAuthorization(r) == "Authorization" \in DOMAIN r.headers

\* C15 as stated: a request carries Authorization: Bearer <token> exactly
\* when an auth_token entry is present in local storage as it is sent.
C15_BearerIffTokenPresent ==
    [][Sends => /\ HasAuthorization(Sent) <=> storage # NoToken
                /\ HasAuthorization(Sent)
                     => Sent.headers.Authorization = <<"Bearer", storage>>]_vars

\* C15 amended: a request carries Authorization: Bearer <token> exactly
\* when local storage holds a non-empty auth_token as it is sent; the token
\* is read at each request.
C15_BearerIffTokenNonEmpty ==
    [][Sends => /\ HasAuthorization(Sent) <=> storage \notin {NoToken, ""}
                /\ HasAuthorization(Sent)
                     => Sent.headers.Authorization = <<"Bearer", storage>>]_vars

\* C15 witness: the first request carried the header, the token was cleared,
\* and the second request went out without it.
C15_Witness ==
    /\ Len(requests) = 2 /\ storage = NoToken
    /\ HasAuthorization(requests[1]) /\ ~HasAuthorization(requests[2])

\* C16: when the response interceptor handles an error with status 401 it
\* removes the token, sets the location to /login and rejects; on any
\* other outcome token and location stay as they are.
C16_Only401ClearsSession ==
    [][\A i \in DOMAIN requests :
         (requests[i].stage = "sent" /\ requests'[i].stage # "sent") =>
            IF requests'[i].response # NetworkError /\ requests'[i].response.status = 401
            THEN /\ storage' = NoToken /\ location' = "/login"
                 /\ requests'[i].stage = "rejected"
            ELSE storage' = storage /\ location' = location]_vars

\* C16 witness: a request that carried the token was answered 401, and the
\* caller got the rejection.
C16_Witness ==
    \E i \in DOMAIN requests :
        /\ HasAuthorization(requests[i]) /\ requests[i].stage = "thrown"
        /\ requests[i].value # NetworkError /\ requests[i].value.status = 401
        /\ storage = NoToken /\ location = "/login"

\* C17: slack-post issues at most one conversations.join and at most two
\* chat.postMessage calls, and the second post is issued only when the join
\* answer has been received, right after the join call.
C17_OneRetryAfterJoinAnswer ==
    fn = "slack-post" =>
        /\ Count("conversations.join") <= 1
        /\ Count("chat.postMessage") <= 2
        /\ Count("chat.postMessage") = 2 =>
              /\ IsBody(joinData)
              /\ calls[Len(calls)].api = "chat.postMessage"
              /\ calls[Len(calls) - 1].api = "conversations.join"

\* C17 witness: the retry post was itself answered not_in_channel and the
\* invocation ended after one join and two posts.
C17_Witness ==
    /\ fn = "slack-post" /\ pc = "FAILED"
    /\ Count("chat.postMessage") = 2 /\ Count("conversations.join") = 1
    /\ NotInChannel(lastResp) /\ lastResp = data

\* The place of a state of slack-post in the order of the flow.
Rank(p) ==
    CASE p = "IDLE" -> 0
      [] p = "RESOLVE_CHANNEL" -> 1
      [] p = "POST" -> 2
      [] p = "JOIN" -> 3
      [] p = "POST_RETRY" -> 4
      [] OTHER -> 5

\* A step of slack-post moves forward in the order, enters JOIN only from
\* POST and POST_RETRY only from JOIN, and never replaces a response.
InOrder ==
    fn' = "slack-post" =>
        /\ pc' # pc => Rank(pc') > Rank(pc)
        /\ pc' = "RESOLVE_CHANNEL" => pc = "IDLE"
        /\ pc' = "POST" => pc \in {"IDLE", "RESOLVE_CHANNEL"}
        /\ pc' = "JOIN" => pc = "POST"
        /\ pc' = "POST_RETRY" => pc = "JOIN"
        /\ resp # NoResp => resp' = resp

\* C18: a slack-post invocation moves through RESOLVE_CHANNEL, POST, JOIN,
\* POST_RETRY only in that order; it has a response exactly when it has
\* ended; and, every external call returning or throwing, an invocation
\* that issued its first call ends in DONE or FAILED.
C18_OrderedAndTerminates ==
    /\ [][InOrder]_vars
    /\ [](fn = "slack-post" => (Ended <=> resp # NoResp))
    /\ (InFlow ~> (Ended /\ resp # NoResp))

\* C18 witness: an invocation went through the list, the post, the join
\* and the retry and ended in DONE.
C18_Witness ==
    /\ fn = "slack-post" /\ pc = "DONE" /\ resp.status = 200
    /\ Len(calls) = 4 /\ calls[1].api = "conversations.list"
    /\ calls[3].api = "conversations.join"

\* C19: every integration function other than slack-post issues at most
\* one external call in an invocation.
C19_SingleCallOutsideSlackPost ==
    (fn \in Functions /\ fn # "slack-post") => Len(calls) <= 1

\* C19 witness: ai-check ended on an upstream failure status after its
\* single call.
C19_Witness ==
    /\ fn = "ai-check" /\ pc = "FAILED" /\ Len(calls) = 1
    /\ lastResp \notin {NoData, Reject} /\ lastResp.status = 401
    /\ resp.status = 400

\* What an invocation does when it is alone: its request handled in the
\* environment e and resumed with the answers of heard, in order.
RECURSIVE Replay(_, _)
Replay(l, heard) ==
    IF heard = <<>> THEN l ELSE Replay(Resume(l, Head(heard)), Tail(heard))

Alone(l, e) == Replay(Start(Fresh(l.method, l.body), e), l.heard)

PostsIn(l) == {k \in DOMAIN l.calls : l.calls[k].api = "chat.postMessage"}

\* The invocation has got past the checks and the channel resolution.
PastResolution(l, e) ==
    /\ l.pc # "IDLE" /\ ~IsPreflight(l.method) /\ ~SecretsMissing("slack-post", e)
    /\ NeedsList(StripHash(l.body.channel))
          => (l.heard # <<>> /\ l.heard[1] \notin {Reject, BadJson})

NoResend ==
    \A i \in DOMAIN requests :
        requests[i].stage # "sent" =>
            /\ requests'[i].stage # "sent"
            /\ requests'[i].response = requests[i].response

\* A call of a resource client that failed rejects with the error of its
\* request.
RejectsWithError ==
    \A i \in DOMAIN requests :
        (requests[i].op \in ResourceOps /\ requests[i].response # NoData
            /\ ~Fulfils(requests[i].response))
        => /\ requests[i].stage \in {"rejected", "thrown"}
           /\ requests[i].stage = "thrown" => requests[i].value = requests[i].response

\* C21 as stated: a call of a resource client sends its one request once,
\* rejects with the error when the request fails, and resolves to the
\* response body when it succeeds.
C21_OneRequestBodyOrError ==
    /\ [][NoResend]_vars
    /\ [](RejectsWithError)
    /\ [](\A i \in DOMAIN requests :
            (requests[i].op \in ResourceOps /\ requests[i].stage = "returned")
            => requests[i].value = requests[i].response.data)

\* C21 amended: the same, except that deleteBacklogItem resolves to
\* undefined.
C21_OneRequestBodyOrErrorOrVoid ==
    /\ [][NoResend]_vars
    /\ [](RejectsWithError)
    /\ [](\A i \in DOMAIN requests :
            (requests[i].op \in ResourceOps /\ requests[i].stage = "returned")
            => requests[i].value =
                  IF requests[i].op = "deleteBacklogItem" THEN UndefVal
                  ELSE requests[i].response.data)

\* C21 witness: one read resolved to the body of its response and another
\* rejected with the 500 answer of its request.
C21_Witness ==
    /\ Len(requests) = 2
    /\ requests[1].op = "getTeams" /\ requests[1].stage = "returned"
    /\ requests[1].value = "a"
    /\ requests[2].op = "getTeams" /\ requests[2].stage = "thrown"
    /\ requests[2].value # NetworkError /\ requests[2].value.status = 500

\* s has the shape of an identifier: C, D or G in either case, then one or
\* more letters or digits.
ShapedLikeId(s) ==
    /\ Len(s) >= 2
    /\ s[1] \in {"C", "D", "G", "c", "d", "g"}
    /\ \A i \in 2..Len(s) : s[i] \notin {"#", "-"}

\* The reference of the request without one leading '#'.
Stripped ==
    IF reqBody.channel[1] = "#"
    THEN SubSeq(reqBody.channel, 2, Len(reqBody.channel))
    ELSE reqBody.channel

\* C22: when the reference without its leading '#' has the shape of an
\* identifier, in either case, slack-post makes no conversations.list call
\* and its first call posts to that stripped string.
C22_StrippedIdShapeSkipsList ==
    (InFlow /\ ShapedLikeId(Stripped))
        => /\ Count("conversations.list") = 0
           /\ calls[1].api = "chat.postMessage"
           /\ calls[1].args.channel = Stripped

\* C22 witness: the lower-case reference '#g1' was posted to as 'g1'.
C22_Witness ==
    /\ InFlow /\ reqBody.channel = <<"#", "g", "1">>
    /\ calls[1].api = "chat.postMessage"
    /\ calls[1].args.channel = <<"g", "1">>

\* C23: after a conversations.list answer the post goes to the id of the
\* first listed channel whose name or name_normalized is the stripped
\* reference when that id is not empty, and to the stripped reference when
\* the answer is not ok, holds no such channel or the id is empty; an
\* answered list call never fails the invocation.
C23_ResolutionFallsBack ==
    /\ PostedAfterList =>
         /\ resp = NoResp
         /\ calls[2].api = "chat.postMessage"
         /\ calls[2].args.channel =
              IF \E i \in DOMAIN Listed(lastResp) :
                    /\ Stripped \in {Listed(lastResp)[i].name,
                                     Listed(lastResp)[i].name_normalized}
                    /\ \A j \in 1..(i - 1) :
                          Stripped \notin {Listed(lastResp)[j].name,
                                           Listed(lastResp)[j].name_normalized}
                    /\ Listed(lastResp)[i].id # <<>>
              THEN Listed(lastResp)[FirstNamedOrNormalized(Listed(lastResp), Stripped)].id
              ELSE Stripped
    /\ (fn = "slack-post" /\ Ended /\ Len(calls) = 1
            /\ calls[1].api = "conversations.list")
         => lastResp \in {Reject, BadJson}

\* C23 witness: the first channel matching the reference has an empty id,
\* a later one has an id, and the post went to the stripped reference.
C23_Witness ==
    /\ PostedAfterList /\ reqBody.channel = <<"#", "-">>
    /\ Len(Listed(lastResp)) = 2
    /\ Listed(lastResp)[1].id = <<>>
    /\ Listed(lastResp)[2].name = <<"-">> /\ Listed(lastResp)[2].id # <<>>
    /\ calls[2].args.channel = <<"-">>

\* C24: slack-post has issued a retry post exactly when the first post
\* was answered not_in_channel and the join answer was ok; a join answer
\* that is not ok ends the invocation FAILED with 400, a hint and the join
\* answer as details.
C24_RetryIffJoined ==
    fn = "slack-post" =>
        /\ Count("chat.postMessage") = 2
             <=> (NotInChannel(firstPost) /\ IsBody(joinData) /\ ~Failure(joinData))
        /\ Failure(joinData) =>
             /\ pc = "FAILED" /\ resp.status = 400
             /\ "hint" \in DOMAIN resp.body
             /\ resp.body.details = joinData
             /\ Count("chat.postMessage") = 1

\* C24 witness: the join answer was JSON null and the invocation failed
\* with the hint.
C24_Witness ==
    /\ fn = "slack-post" /\ joinData = Null /\ pc = "FAILED"
    /\ "hint" \in DOMAIN resp.body /\ resp.body.details = Null

\* The index in calls of the first chat.postMessage, 0 when none.
FirstPostCall ==
    IF \E i \in DOMAIN calls : calls[i].api = "chat.postMessage"
    THEN CHOOSE i \in DOMAIN calls :
            /\ calls[i].api = "chat.postMessage"
            /\ \A j \in 1..(i - 1) : calls[j].api # "chat.postMessage"
    ELSE 0

\* C25: every call of slack-post after its first post goes to the channel
\* of the first post, and the retry post carries the text of the first
\* post.
C25_ChannelAndTextKept ==
    (fn = "slack-post" /\ FirstPostCall # 0) =>
        \A i \in (FirstPostCall + 1)..Len(calls) :
            /\ calls[i].args.channel = calls[FirstPostCall].args.channel
            /\ calls[i].api = "chat.postMessage"
                 => calls[i].args.text = calls[FirstPostCall].args.text

\* C25 witness: a name was resolved to an id and the join and the retry
\* post used that id.
C25_Witness ==
    /\ fn = "slack-post" /\ Len(calls) = 4
    /\ calls[2].args.channel # Stripped
    /\ calls[3].args.channel = calls[2].args.channel
    /\ calls[4].args.channel = calls[2].args.channel
    /\ calls[4].args.text = calls[2].args.text

\* Some secret the function requires is undefined or empty.
SecretLacking == \E k \in DOMAIN env : env[k] \in {UndefVal, ""}

\* C26: in slack-post and jira-create-issue a request lacking a secret is
\* answered 500 for the secret before the body is read, whatever the body;
\* with every secret set, a body that is not JSON is answered 500 from the
\* catch block.
C26_SecretCheckBeforeBody ==
    (fn \in {"slack-post", "jira-create-issue"} /\ method # "OPTIONS") =>
        /\ SecretLacking =>
             /\ resp.status = 500 /\ ~bodyRead /\ calls = <<>>
             /\ resp.body # [error |-> "exception"]
        /\ (~SecretLacking /\ reqBody = BadJson) =>
             /\ resp.status = 500 /\ bodyRead /\ calls = <<>>
             /\ resp.body = [error |-> "exception"]

\* C26 witness: jira-create-issue without JIRA_URL and with a body that
\* is not JSON answered 500 for the secrets.
C26_Witness ==
    /\ fn = "jira-create-issue" /\ method = "POST" /\ reqBody = BadJson
    /\ env["JIRA_URL"] = UndefVal /\ resp.status = 500 /\ ~bodyRead

\* C27: ai-check given a body that is not JSON, or has no prompt, calls
\* OpenAI once with the prompt "Say 'ok'"; an answered 2xx completion gives
\* 200 with ok = true and generatedText the content of the first choice,
\* or "" when there is none.
C27_DefaultPromptAndText ==
    (fn = "ai-check" /\ method # "OPTIONS" /\ ~SecretLacking) =>
        /\ (reqBody = BadJson
              \/ (reqBody # Null /\ reqBody # BadJson
                    /\ reqBody.prompt \in {UndefVal, ""}))
             => /\ Len(calls) = 1
                /\ calls[1].args.prompt = "Say 'ok'"
        /\ (Ended /\ reqBody # Null /\ lastResp \notin {NoData, Reject}
              /\ lastResp.status = 200 /\ lastResp.body \notin {BadJson, Null})
             => /\ resp.status = 200 /\ resp.body.ok = TRUE
                /\ resp.body.generatedText =
                     IF lastResp.body.choices = <<>> THEN ""
                     ELSE lastResp.body.choices[1]

\* C27 witness: a body that is not JSON, a completion without choices, and
\* 200 with the empty text.
C27_Witness ==
    /\ fn = "ai-check" /\ reqBody = BadJson /\ pc = "DONE"
    /\ Len(calls) = 1 /\ calls[1].args.prompt = "Say 'ok'"
    /\ resp.body.generatedText = ""

\* What a step does to the token when it moves the logout call i on.
LogoutStep(i) ==
    /\ (requests[i].stage = "sent" /\ requests'[i].stage = "resolved")
         => storage' = storage
    /\ (requests[i].stage = "sent" /\ requests'[i].stage = "rejected")
         => storage' = IF requests'[i].response # NetworkError
                          /\ requests'[i].response.status = 401
                       THEN NoToken ELSE storage
    /\ (requests[i].stage = "resolved" /\ requests'[i].stage # "resolved")
         => requests'[i].stage = "returned" /\ storage' = NoToken
    /\ (requests[i].stage = "rejected" /\ requests'[i].stage # "rejected")
         => /\ requests'[i].stage = "thrown" /\ storage' = storage
            /\ requests'[i].value = requests[i].response

\* C28: logout removes the token when it resumes after its POST has
\* resolved and not before; when the POST rejects, logout rejects with the
\* error and the token is changed only by the response interceptor, on 401.
C28_LogoutClearsAfterResolve ==
    [][\A i \in DOMAIN requests : requests[i].op = "logout" => LogoutStep(i)]_vars

\* C28 witness: the logout POST was answered 500, logout rejected and the
\* token is still stored.
C28_Witness ==
    \E i \in DOMAIN requests :
        /\ requests[i].op = "logout" /\ requests[i].stage = "thrown"
        /\ requests[i].value # NetworkError /\ requests[i].value.status = 500
        /\ HasAuthorization(requests[i]) /\ storage = "t1"

\* The presses since the last Start, and whether there was a Start.
Started == \E i \in DOMAIN clicks : clicks[i] = "start"
LastStart == CHOOSE i \in DOMAIN clicks :
    clicks[i] = "start" /\ \A j \in (i + 1)..Len(clicks) : clicks[j] # "start"
NextsSinceStart == Len(clicks) - LastStart

\* C29: the speaker index is null or in 0..n-1; it is null until the first
\* Start, whatever Next presses came before; and k Next presses after the
\* last Start leave it at k mod n (0 right after Start).
C29_IndexIsNextsModPeople ==
    /\ currentIdx = NullIdx \/ currentIdx \in 0..(Len(People) - 1)
    /\ ~Started => currentIdx = NullIdx
    /\ Started => currentIdx = NextsSinceStart % Len(People)

\* C29 witness: a Next before any Start, then a Start and five Next
\* presses: the index has wrapped to 1.
C29_Witness ==
    /\ clicks = <<"next", "start", "next", "next", "next", "next", "next">>
    /\ currentIdx = 1 /\ announced = "Bob"

\* C30: the list holds the last min(added, 10) updates, the newest first.
C30_LastTenNewestFirst ==
    /\ Len(liveUpdates) <= 10
    /\ Len(liveUpdates) = IF added < 10 THEN added ELSE 10
    /\ \A i \in DOMAIN liveUpdates : liveUpdates[i].seq = added - i + 1

\* C30 witness: an eleventh update was added and the first one is gone.
C30_Witness ==
    /\ added = 11 /\ Len(liveUpdates) = 10
    /\ liveUpdates[1].seq = 11 /\ liveUpdates[10].seq = 2

====
